---- MODULE Spec2Model ----
(***************************************************************************)
(* Model of cftp's S3FtpClient (src/cftp/s3.py): ftp-style directory       *)
(* semantics derived from the flat key space of one S3 bucket.             *)
(*                                                                         *)
(* Strings are sequences of one-character strings, so that prefix          *)
(* matching, stripping, splitting and ordering are computed character by   *)
(* character, as Python and S3 do.                                         *)
(***************************************************************************)
EXTENDS Integers, Sequences, FiniteSets, TLC

VARIABLES store, cloudStorageLocation, remoteWorkingDir, localWorkingDir,
          s3DefaultObjParams, interactive, depth, pending, res

vars == <<store, cloudStorageLocation, remoteWorkingDir, localWorkingDir,
          s3DefaultObjParams, interactive, depth, pending, res>>

(***************************************************************************)
(* Bounds of the model.                                                    *)
(***************************************************************************)
MaxArgLen == 2      \* longest path argument given to a command
MaxFolderLen == 1   \* longest folder part of an open location
MaxKeyLen == 4      \* longest key the bucket may come to hold
MaxObjs == 2        \* most objects the bucket may come to hold
MaxSize == 1        \* largest object size (local file size for put)
MaxInitObjs == 1    \* most objects the bucket holds when the session starts
MaxDepth == 2

\* the patterns of one batch command, and the batches under way at a time
MaxPatterns == 2

MaxBatches == 1       \* most activations of CommandLine nested at one time

(***************************************************************************)
(* Characters and strings.                                                 *)
(***************************************************************************)
Chars == {".", "/", "a"}

\* code point of a character (the order of Python str comparison and of
\* S3's UTF-8 binary key order)
Ord(c) == CASE c = "." -> 46 [] c = "/" -> 47 [] c = "a" -> 97

\* Python None, as a value no string equals
None == <<"None">>

Strs(n) == UNION {[1..k -> Chars] : k \in 0..n}

\* str.startswith / S3 Prefix match
StartsWith(s, p) == Len(p) <= Len(s) /\ SubSeq(s, 1, Len(p)) = p

\* Python str "<"
StrLess(a, b) ==
    \E i \in 1..Len(b) :
        /\ \A j \in 1..(i - 1) : j <= Len(a) /\ a[j] = b[j]
        /\ (i > Len(a) \/ Ord(a[i]) < Ord(b[i]))

RECURSIVE rstripSlash(_)
rstripSlash(s) ==
    IF s # <<>> /\ s[Len(s)] = "/" THEN rstripSlash(SubSeq(s, 1, Len(s) - 1)) ELSE s

RECURSIVE lstripSlash(_)
lstripSlash(s) ==
    IF s # <<>> /\ s[1] = "/" THEN lstripSlash(Tail(s)) ELSE s

\* str.split('/'): the segments between separators (always at least one)
RECURSIVE splitSlash(_)
splitSlash(s) ==
    IF \A i \in 1..Len(s) : s[i] # "/" THEN <<s>>
    ELSE LET i == CHOOSE i \in 1..Len(s) : s[i] = "/" /\ \A j \in 1..(i - 1) : s[j] # "/"
         IN  <<SubSeq(s, 1, i - 1)>> \o splitSlash(SubSeq(s, i + 1, Len(s)))

\* '/'.join(segs)
RECURSIVE joinSlash(_)
joinSlash(segs) ==
    IF segs = <<>> THEN <<>>
    ELSE IF Len(segs) = 1 THEN segs[1]
    ELSE segs[1] \o <<"/">> \o joinSlash(Tail(segs))

\* os.path.basename / the tail of os.path.split: what follows the last '/'
basename(s) == splitSlash(s)[Len(splitSlash(s))]

\* str.replace(old, '', 1): the first occurrence of old removed
replaceFirst(s, old) ==
    LET hits == {i \in 1..(Len(s) - Len(old) + 1) : SubSeq(s, i, i + Len(old) - 1) = old}
    IN  IF hits = {} THEN s
        ELSE LET i == CHOOSE i \in hits : \A j \in hits : i <= j
             IN  SubSeq(s, 1, i - 1) \o SubSeq(s, i + Len(old), Len(s))

\* the loop of posixpath.normpath over the components
RECURSIVE normComps(_, _, _)
normComps(comps, new, initial) ==
    IF comps = <<>> THEN new
    ELSE LET comp == Head(comps)
             rest == Tail(comps)
         IN  IF comp = <<>> \/ comp = <<".">> THEN normComps(rest, new, initial)
             ELSE IF \/ comp # <<".", ".">>
                     \/ (initial = 0 /\ new = <<>>)
                     \/ (new # <<>> /\ new[Len(new)] = <<".", ".">>)
                  THEN normComps(rest, Append(new, comp), initial)
             ELSE IF new # <<>>
                  THEN normComps(rest, SubSeq(new, 1, Len(new) - 1), initial)
             ELSE normComps(rest, new, initial)

\* os.path.normpath (posix)
normpath(path) ==
    IF path = <<>> THEN <<".">>
    ELSE LET initial == IF StartsWith(path, <<"/", "/">>) /\ ~StartsWith(path, <<"/", "/", "/">>)
                        THEN 2
                        ELSE IF path[1] = "/" THEN 1 ELSE 0
             body == joinSlash(normComps(splitSlash(path), <<>>, initial))
             p == [i \in 1..initial |-> "/"] \o body
         IN  IF p = <<>> THEN <<".">> ELSE p

(***************************************************************************)
(* The bucket: a function from the keys it holds to the objects' sizes.    *)
(***************************************************************************)

\* the keys in ascending order (S3 lists keys in UTF-8 binary order)
RECURSIVE SortKeys(_)
SortKeys(S) ==
    IF S = {} THEN <<>>
    ELSE LET m == CHOOSE x \in S : \A y \in S \ {x} : StrLess(x, y)
         IN  <<m>> \o SortKeys(S \ {m})

\* s3Bucket.objects.filter(Prefix=loc): the keys that start with loc, in order
filter(s, loc) == SortKeys({k \in DOMAIN s : StartsWith(k, loc)})

\* s3Bucket.put_object / upload_file: the object at key is created or overwritten
putObject(s, key, size) == [k \in DOMAIN s \cup {key} |-> IF k = key THEN size ELSE s[k]]

\* obj.delete()
deleteObject(s, key) == [k \in DOMAIN s \ {key} |-> s[k]]

(***************************************************************************)
(* Path normalisation and classification (the auxiliary methods).          *)
(***************************************************************************)

\* AbsolutePath keeping the separators an absolute path begins with
AbsolutePath_noLstrip(f, rwd) ==
    LET remotePath == IF f[1] # "/" /\ rwd # <<>>
                      THEN rwd \o <<"/">> \o rstripSlash(f)
                      ELSE rstripSlash(f)
        n == normpath(remotePath)
    IN  IF n = <<".">> THEN <<>> ELSE n

\* AbsolutePath without the normalization of the joined path
AbsolutePath_noNormpath(f, rwd) ==
    LET remotePath == IF f[1] # "/" /\ rwd # <<>>
                      THEN rwd \o <<"/">> \o rstripSlash(f)
                      ELSE rstripSlash(lstripSlash(f))
    IN  IF remotePath = <<".">> THEN <<>> ELSE remotePath

AbsolutePath(f, rwd) ==
    LET remotePath == IF f[1] # "/" /\ rwd # <<>>
                      THEN rwd \o <<"/">> \o rstripSlash(f)
                      ELSE rstripSlash(lstripSlash(f))
        n == normpath(remotePath)
    IN  IF n = <<".">> THEN <<>> ELSE n

\* IsDir looking for the marker among all the listed keys, not only the first
IsDir_anyKey(s, loc) ==
    LET objs == filter(s, loc)
    IN  loc = <<>> \/ \E i \in 1..Len(objs) : objs[i] = loc \o <<"/">>

\* IsDir taking a zero-size object at the very key for a directory
IsDir_bySize(s, loc) ==
    LET objs == filter(s, loc)
    IN  IF loc = <<>> \/ (Len(objs) = 0 /\ loc = <<"/">>) THEN TRUE
        ELSE IF Len(objs) = 0 THEN FALSE
        ELSE IF \/ (loc = objs[1] /\ s[objs[1]] = 0)
                \/ (loc \o <<"/">>) = objs[1]
             THEN TRUE
        ELSE FALSE

IsDir(s, loc) ==
    LET objs == filter(s, loc)
    IN  IF loc = <<>> \/ (Len(objs) = 0 /\ loc = <<"/">>) THEN TRUE
        ELSE IF Len(objs) = 0 THEN FALSE
        ELSE IF \/ (loc = objs[1] /\ objs[1][Len(objs[1])] = "/")
                \/ (loc \o <<"/">>) = objs[1]
             THEN TRUE
        ELSE FALSE

IsFile(s, loc) ==
    LET keys == filter(s, loc)
        objs == [i \in 1..Len(keys) |-> s[keys[i]]]
    IN  IF Len(objs) = 1 /\ objs[1] > 0 THEN TRUE ELSE FALSE

\* DirEmpty: "NoSuchDir" stands for the raised S3FTPNoSuchDirError
\* DirEmpty without the test of the size
DirEmpty_anySize(s, loc) ==
    IF IsDir(s, loc)
    THEN IF Len(filter(s, loc)) = 1 THEN "True" ELSE "False"
    ELSE "NoSuchDir"

DirEmpty(s, loc) ==
    IF IsDir(s, loc)
    THEN LET keys == filter(s, loc)
             objs == [i \in 1..Len(keys) |-> s[keys[i]]]
         IN  IF Len(objs) = 1 /\ objs[1] = 0 THEN "True" ELSE "False"
    ELSE "NoSuchDir"

(***************************************************************************)
(* The commands, as functions of the bucket and the working directory.     *)
(* Each yields the bucket afterwards and the outcome: "ok", or the name of *)
(* the exception raised.                                                   *)
(***************************************************************************)

\* cd without the IsDir check
cdOp_unchecked(s, rwd, dirName) ==
    [rwd |-> AbsolutePath(dirName, rwd), out |-> "ok"]

cdOp(s, rwd, dirName) ==
    LET remotePath == AbsolutePath(dirName, rwd)
    IN  IF IsDir(s, remotePath)
        THEN [rwd |-> remotePath, out |-> "ok"]
        ELSE [rwd |-> rwd, out |-> "S3FTPNoSuchDirError"]

\* delete with the two tests in the other order
deleteOp_dirFirst(s, rwd, fileName) ==
    LET remotePath == AbsolutePath(fileName, rwd)
    IN  IF IsDir(s, remotePath)
        THEN [store |-> s, out |-> "S3FTPIsADirectoryError"]
        ELSE IF IsFile(s, remotePath)
        THEN LET Sized(k) == s[k] > 0
                 objs == SelectSeq(filter(s, remotePath), Sized)
             IN  [store |-> deleteObject(s, objs[1]), out |-> "ok"]
        ELSE [store |-> s, out |-> "S3FTPNoSuchObjectError"]

deleteOp(s, rwd, fileName) ==
    LET remotePath == AbsolutePath(fileName, rwd)
    IN  IF IsFile(s, remotePath)
        THEN LET Sized(k) == s[k] > 0
                 objs == SelectSeq(filter(s, remotePath), Sized)
             IN  [store |-> deleteObject(s, objs[1]), out |-> "ok"]
        ELSE IF IsDir(s, remotePath)
        THEN [store |-> s, out |-> "S3FTPIsADirectoryError"]
        ELSE [store |-> s, out |-> "S3FTPNoSuchObjectError"]

\* mkdir without the IsFile check
mkdirOp_noFileCheck(s, rwd, dirName) ==
    LET remotePath == AbsolutePath(dirName, rwd)
    IN  IF ~IsDir(s, remotePath)
        THEN [store |-> putObject(s, remotePath \o <<"/">>, 0), out |-> "ok"]
        ELSE [store |-> s, out |-> "S3FTPObjectAlreadyExistsError"]

mkdirOp(s, rwd, dirName) ==
    LET remotePath == AbsolutePath(dirName, rwd)
    IN  IF ~IsDir(s, remotePath) /\ ~IsFile(s, remotePath)
        THEN [store |-> putObject(s, remotePath \o <<"/">>, 0), out |-> "ok"]
        ELSE [store |-> s, out |-> "S3FTPObjectAlreadyExistsError"]

rmdirOp(s, rwd, dirName) ==
    LET remotePath == AbsolutePath(dirName, rwd)
    IN  IF IsDir(s, remotePath)
        THEN IF DirEmpty(s, remotePath) = "True"
             THEN LET objs == filter(s, remotePath)
                  IN  [store |-> deleteObject(s, objs[1]), out |-> "ok"]
             ELSE [store |-> s, out |-> "S3FTPDirNotEmptyError"]
        ELSE [store |-> s, out |-> "S3FTPNoSuchDirError"]

\* a list of the strings of S, each as often as mult says, in ascending order
RECURSIVE SortedList(_, _)
SortedList(S, mult) ==
    IF S = {} THEN <<>>
    ELSE LET m == CHOOSE x \in S : \A y \in S \ {x} : StrLess(x, y)
         IN  [i \in 1..mult[m] |-> m] \o SortedList(S \ {m}, mult)

\* ls raising when the list it would return is empty
lsOp_emptyListing(s, rwd) ==
    LET keys == {k \in DOMAIN s : StartsWith(k, rwd)}
        objs == IF rwd # <<>>
                THEN {replaceFirst(k, rwd \o <<"/">>) : k \in keys}
                ELSE {splitSlash(k)[1] : k \in keys}
        left == objs \ {<<>>}
        stripped == {rstripSlash(o) : o \in left}
        mult == [v \in stripped |-> Cardinality({o \in left : rstripSlash(o) = v})]
    IN  IF left = {}
        THEN [ret |-> <<>>, out |-> "S3FTPNoSuchDirError"]
        ELSE [ret |-> SortedList(stripped, mult), out |-> "ok"]

lsOp(s, rwd) ==
    LET keys == {k \in DOMAIN s : StartsWith(k, rwd)}
        objs == IF rwd # <<>>
                THEN {replaceFirst(k, rwd \o <<"/">>) : k \in keys}
                ELSE {splitSlash(k)[1] : k \in keys}
        left == objs \ {<<>>}
        stripped == {rstripSlash(o) : o \in left}
        mult == [v \in stripped |-> Cardinality({o \in left : rstripSlash(o) = v})]
    IN  IF objs = {}
        THEN [ret |-> <<>>, out |-> "S3FTPNoSuchDirError"]
        ELSE [ret |-> SortedList(stripped, mult), out |-> "ok"]

\* put: exists says whether localWorkingDir/fileName is a readable local file,
\* size is its size
putOp(s, rwd, fileName, exists, size) ==
    LET localFile == basename(fileName)
    IN  IF localFile = <<>>
        THEN [store |-> s, out |-> "Exit"]
        ELSE LET remotePath == AbsolutePath(localFile, rwd)
             IN  IF ~exists \/ localFile \in {<<".">>, <<".", ".">>}
                 THEN [store |-> s, out |-> "OSError"]
                 ELSE [store |-> putObject(s, remotePath, size), out |-> "ok"]

\* the names a download cannot be written under: they are directories
NotAFileName == {<<>>, <<".">>, <<".", ".">>}

(***************************************************************************)
(* Parameter bags: dictionaries from parameter names to values, as sets of *)
(* <<name, value>> pairs with no name twice.                               *)
(***************************************************************************)

\* parameter names: one that upload_file alone accepts, one that
\* download_file alone accepts, and one that neither does
ALLOWED_UPLOAD_ARGS == {"ContentType"}

ALLOWED_DOWNLOAD_ARGS == {"VersionId"}

ParamKeys == ALLOWED_UPLOAD_ARGS \cup ALLOWED_DOWNLOAD_ARGS \cup {"Bogus"}

ParamValues == {"v", "w"}

Bags == UNION {{{<<k, f[k]>> : k \in K} : f \in [K -> ParamValues]} : K \in SUBSET ParamKeys}

\* { key:value for key,value in bag.items() if key in allowed }
filterArgs(bag, allowed) == {kv \in bag : kv[1] \in allowed}

\* for key,value in bag.items() : d[key] = value
updateParams(d, bag) ==
    {kv \in d : \A n \in bag : n[1] # kv[1]} \cup bag

S3ParamsAreValid(bag) ==
    \A kv \in bag : kv[1] \in ALLOWED_UPLOAD_ARGS \/ kv[1] \in ALLOWED_DOWNLOAD_ARGS

\* get: download is the call of download_file, which writes the object at
\* Key to the local file dir/file; a Key that no object has makes
\* download_file raise a ClientError
getOp(s, cl, rwd, lwd, fileName, extra) ==
    LET localFile == basename(fileName)
        remotePath == AbsolutePath(fileName, rwd)
    IN  IF IsFile(s, remotePath)
        THEN IF remotePath \notin DOMAIN s
             THEN [download |-> <<>>, out |-> "Exit"]
             ELSE IF localFile \in NotAFileName
             THEN [download |-> <<>>, out |-> "OSError"]
             ELSE [download |-> <<[Bucket |-> cl, Key |-> remotePath,
                                   dir |-> lwd, file |-> localFile,
                                   extra_args |-> extra]>>,
                   out |-> "ok"]
        ELSE IF IsDir(s, remotePath)
        THEN [download |-> <<>>, out |-> "S3FTPIsADirectoryError"]
        ELSE [download |-> <<>>, out |-> "S3FTPNoSuchFileError"]

\* the buckets of the account
Buckets == {<<"b">>}

\* open leaving the working directory at the root whatever the location
openOp_rootOnly(loc) ==
    LET bucketName == splitSlash(loc)[1]
    IN  IF bucketName \notin Buckets
        THEN [out |-> "S3FTPNoSuchBucketError"]
        ELSE [out |-> "ok", cloudStorageLocation |-> bucketName,
              remoteWorkingDir |-> <<>>]

openOp(loc) ==
    LET parts == splitSlash(loc)
        bucketName == parts[1]
        bucketFolder == rstripSlash(joinSlash(Tail(parts)))
    IN  IF bucketName \notin Buckets
        THEN [out |-> "S3FTPNoSuchBucketError"]
        ELSE [out |-> "ok", cloudStorageLocation |-> bucketName,
              remoteWorkingDir |-> bucketFolder]

(***************************************************************************)
(* The session and the commands as steps.                                  *)
(*                                                                         *)
(* A command runs to completion in one step and leaves in res what it was  *)
(* (op, arg, aux), what it found (the bucket and the session before it:    *)
(* store0, cl0, rwd0, depth0) and what came of it (out, ret).  Return      *)
(* hands the result on, and the next command may be issued.  After outcome *)
(* "Exit" (sys.exit) the process is gone.                                  *)
(*                                                                         *)
(* depth counts the activations of CommandLine.  At depth 0 the commands   *)
(* are method calls of a program; above it they are lines read from        *)
(* standard input.  interactive says that the process is the command line  *)
(* client itself, whose bottom activation is the one of the main script.   *)
(***************************************************************************)

Args == Strs(MaxArgLen) \ {<<>>}

\* open locations: a bucket name, alone or followed by "/" and a folder part
Locations ==
    {b \o t : b \in Buckets \cup {<<"c">>},
              t \in {<<>>} \cup {<<"/">> \o f : f \in Strs(MaxFolderLen)}}

connected == cloudStorageLocation # None

\* the attribute s3DefaultObjParams exists once a parameter file was loaded
NoParams == [isSet |-> FALSE, bag |-> {}]

InitParams == {NoParams, [isSet |-> TRUE, bag |-> {}]}

\* the directories of the local machine, and the names lcd may be given
LocalDirs == {"cwd"}

LocalNames == LocalDirs \cup {"nodir"}

\* the exceptions the wrapper of the S3 methods answers with a command loop
Raised ==
    {"OSError", "S3FTPNoSuchBucketError", "S3FTPNoSuchDirError",
     "S3FTPNoSuchObjectError", "S3FTPIsADirectoryError", "S3FTPNoSuchFileError",
     "S3FTPObjectAlreadyExistsError", "S3FTPDirNotEmptyError",
     "S3FTPInvalidObjectParameter", "NoSuchDir"}

Idle ==
    [op |-> "none", arg |-> <<>>, aux |-> <<>>, out |-> "ok", ret |-> <<>>,
     store0 |-> <<>>, cl0 |-> None, rwd0 |-> None, lwd0 |-> "cwd",
     params0 |-> NoParams, depth0 |-> 0]

\* a batch command is at work in this activation: its loop over the matched
\* files has not come to its end
busy == pending # <<>> /\ pending[1].depth = depth

\* the result of the last command was handed on and no batch is at work:
\* the next command may be issued
ready == res = Idle /\ ~busy

\* the bucket stays within the bounds of the model
InBounds(s) ==
    /\ Cardinality(DOMAIN s) <= MaxObjs
    /\ \A k \in DOMAIN s : Len(k) <= MaxKeyLen

Result(op, arg, aux, out, ret) ==
    [op |-> op, arg |-> arg, aux |-> aux, out |-> out, ret |-> ret,
     store0 |-> store, cl0 |-> cloudStorageLocation, rwd0 |-> remoteWorkingDir,
     lwd0 |-> localWorkingDir, params0 |-> s3DefaultObjParams, depth0 |-> depth]

\* a program may pass any string; a token of an input line is never empty
Callable(f) == depth = 0 \/ f # <<>>

\* f[0] of the empty string
IndexError(f) == f = <<>>

\* the wrapper of the S3 methods: an exception it knows is logged and
\* answered with a new activation of CommandLine
ExceptionWrapper(out) ==
    /\ out \in Raised => depth < MaxDepth
    /\ depth' = IF out \in Raised THEN depth + 1 ELSE depth
    /\ UNCHANGED interactive

\* the buckets the session may find: any objects, put there by anyone
InitStores ==
    UNION {[K -> 0..MaxSize] : K \in {K \in SUBSET Args : Cardinality(K) <= MaxInitObjs}}

\* a client just constructed
Start ==
    /\ store \in InitStores
    /\ cloudStorageLocation = None
    /\ remoteWorkingDir = None
    /\ localWorkingDir = "cwd"
    /\ s3DefaultObjParams \in InitParams
    /\ pending = <<>>
    /\ res = Idle

\* the client as an object of a program
Init == Start /\ interactive = FALSE /\ depth = 0

\* the client run as a script: the main block calls CommandLine
InitCL == Start /\ interactive = TRUE /\ depth = 1

\* open assigning the session before it knows that the bucket exists
open_assignFirst(loc) ==
    /\ ready
    /\ LET r == openOp(loc)
       IN  /\ res' = Result("open", loc, <<>>, r.out, <<>>)
           /\ ExceptionWrapper(r.out)
           /\ cloudStorageLocation' = splitSlash(loc)[1]
           /\ remoteWorkingDir' = rstripSlash(joinSlash(Tail(splitSlash(loc))))
    /\ UNCHANGED <<store, localWorkingDir, s3DefaultObjParams, pending>>

open(loc) ==
    /\ ready
    /\ LET r == openOp(loc)
       IN  /\ res' = Result("open", loc, <<>>, r.out, <<>>)
           /\ ExceptionWrapper(r.out)
           /\ IF r.out = "ok"
              THEN /\ cloudStorageLocation' = r.cloudStorageLocation
                   /\ remoteWorkingDir' = r.remoteWorkingDir
              ELSE UNCHANGED <<cloudStorageLocation, remoteWorkingDir>>
    /\ UNCHANGED <<store, localWorkingDir, s3DefaultObjParams, pending>>

close ==
    /\ ready
    /\ cloudStorageLocation' = None
    /\ remoteWorkingDir' = None
    /\ res' = Result("close", <<>>, <<>>, "ok", <<>>)
    /\ UNCHANGED <<store, localWorkingDir, s3DefaultObjParams, pending, interactive, depth>>

cd(dirName) ==
    /\ ready /\ connected /\ Callable(dirName)
    /\ LET r == IF IndexError(dirName)
                THEN [rwd |-> remoteWorkingDir, out |-> "Exit"]
                ELSE cdOp(store, remoteWorkingDir, dirName)
       IN  /\ remoteWorkingDir' = r.rwd
           /\ res' = Result("cd", dirName, <<>>, r.out, <<>>)
           /\ ExceptionWrapper(r.out)
    /\ UNCHANGED <<store, cloudStorageLocation, localWorkingDir, s3DefaultObjParams, pending>>

delete(fileName) ==
    /\ ready /\ connected /\ Callable(fileName)
    /\ LET r == IF IndexError(fileName)
                THEN [store |-> store, out |-> "Exit"]
                ELSE deleteOp(store, remoteWorkingDir, fileName)
       IN  /\ store' = r.store
           /\ res' = Result("delete", fileName, <<>>, r.out, <<>>)
           /\ ExceptionWrapper(r.out)
    /\ UNCHANGED <<cloudStorageLocation, remoteWorkingDir, localWorkingDir,
                   s3DefaultObjParams, pending>>

mkdir(dirName) ==
    /\ ready /\ connected /\ Callable(dirName)
    /\ LET r == IF IndexError(dirName)
                THEN [store |-> store, out |-> "Exit"]
                ELSE mkdirOp(store, remoteWorkingDir, dirName)
       IN  /\ InBounds(r.store)
           /\ store' = r.store
           /\ res' = Result("mkdir", dirName, <<>>, r.out, <<>>)
           /\ ExceptionWrapper(r.out)
    /\ UNCHANGED <<cloudStorageLocation, remoteWorkingDir, localWorkingDir,
                   s3DefaultObjParams, pending>>

rmdir(dirName) ==
    /\ ready /\ connected /\ Callable(dirName)
    /\ LET r == IF IndexError(dirName)
                THEN [store |-> store, out |-> "Exit"]
                ELSE rmdirOp(store, remoteWorkingDir, dirName)
       IN  /\ store' = r.store
           /\ res' = Result("rmdir", dirName, <<>>, r.out, <<>>)
           /\ ExceptionWrapper(r.out)
    /\ UNCHANGED <<cloudStorageLocation, remoteWorkingDir, localWorkingDir,
                   s3DefaultObjParams, pending>>

\* ls leaving the session at the root of the bucket
ls_toRoot ==
    /\ ready /\ connected
    /\ LET r == lsOp(store, remoteWorkingDir)
       IN  /\ res' = Result("ls", <<>>, <<>>, r.out, r.ret)
           /\ ExceptionWrapper(r.out)
    /\ remoteWorkingDir' = <<>>
    /\ UNCHANGED <<store, cloudStorageLocation, localWorkingDir,
                   s3DefaultObjParams, pending>>

ls ==
    /\ ready /\ connected
    /\ LET r == lsOp(store, remoteWorkingDir)
       IN  /\ res' = Result("ls", <<>>, <<>>, r.out, r.ret)
           /\ ExceptionWrapper(r.out)
    /\ UNCHANGED <<store, cloudStorageLocation, remoteWorkingDir, localWorkingDir,
                   s3DefaultObjParams, pending>>

\* the argument s3ObjArgs left out
NoBag == [given |-> FALSE, bag |-> {}]

\* a program may pass a bag of its own; the command loop never does
Passable(s3ObjArgs) == depth = 0 \/ ~s3ObjArgs.given

\* s3ObjArgs, or the default parameters when no bag is passed
argsOrDefault(s3ObjArgs) ==
    IF s3ObjArgs.given THEN s3ObjArgs.bag ELSE s3DefaultObjParams.bag

\* self.s3DefaultObjParams is read and the attribute does not exist
AttributeError(s3ObjArgs) == ~s3ObjArgs.given /\ ~s3DefaultObjParams.isSet

\* get; existed says whether a local file of that name was there before
get(fileName, existed, s3ObjArgs) ==
    /\ ready /\ connected /\ Callable(fileName) /\ Passable(s3ObjArgs)
    /\ LET r == IF IndexError(fileName) \/ AttributeError(s3ObjArgs)
                THEN [download |-> <<>>, out |-> "Exit"]
                ELSE getOp(store, cloudStorageLocation, remoteWorkingDir,
                           localWorkingDir, fileName,
                           filterArgs(argsOrDefault(s3ObjArgs), ALLOWED_DOWNLOAD_ARGS))
       IN  /\ res' = Result("get", fileName, <<existed, s3ObjArgs>>, r.out, r.download)
           /\ ExceptionWrapper(r.out)
    /\ UNCHANGED <<store, cloudStorageLocation, remoteWorkingDir, localWorkingDir,
                   s3DefaultObjParams, pending>>

\* put; ret is the bag upload_file is given as extra_args
put(fileName, exists, size, s3ObjArgs) ==
    /\ ready /\ connected /\ Callable(fileName) /\ Passable(s3ObjArgs)
    /\ LET r == IF AttributeError(s3ObjArgs)
                THEN [store |-> store, out |-> "Exit"]
                ELSE putOp(store, remoteWorkingDir, fileName, exists, size)
           extra == filterArgs(argsOrDefault(s3ObjArgs), ALLOWED_UPLOAD_ARGS)
       IN  /\ InBounds(r.store)
           /\ store' = r.store
           /\ res' = Result("put", fileName, <<exists, size, s3ObjArgs>>, r.out,
                            IF r.out = "ok" THEN <<[extra_args |-> extra]>> ELSE <<>>)
           /\ ExceptionWrapper(r.out)
    /\ UNCHANGED <<cloudStorageLocation, remoteWorkingDir, localWorkingDir,
                   s3DefaultObjParams, pending>>

\* SetS3DefaultObjParams: the defaults are updated key by key
SetS3DefaultObjParams(s3Params) ==
    /\ ready /\ depth = 0
    /\ LET out == IF ~S3ParamsAreValid(s3Params) THEN "S3FTPInvalidObjectParameter"
                  ELSE IF s3Params # {} /\ ~s3DefaultObjParams.isSet THEN "Exit"
                  ELSE "ok"
       IN  /\ res' = Result("SetS3DefaultObjParams", <<>>, <<s3Params>>, out, <<>>)
           /\ ExceptionWrapper(out)
           /\ s3DefaultObjParams' =
                  IF out = "ok" /\ s3DefaultObjParams.isSet
                  THEN [isSet |-> TRUE, bag |-> updateParams(s3DefaultObjParams.bag, s3Params)]
                  ELSE s3DefaultObjParams
    /\ UNCHANGED <<store, cloudStorageLocation, remoteWorkingDir, localWorkingDir,
                   pending>>

\* LoadS3DefaultObjParams of a file of the local working directory; exists
\* says whether the file is there, s3Params is the dictionary it holds
LoadS3DefaultObjParams(exists, s3Params) ==
    /\ ready /\ depth = 0
    /\ LET out == IF ~exists THEN "OSError"
                  ELSE IF ~S3ParamsAreValid(s3Params) THEN "S3FTPInvalidObjectParameter"
                  ELSE "ok"
       IN  /\ res' = Result("LoadS3DefaultObjParams", <<>>, <<exists, s3Params>>, out, <<>>)
           /\ ExceptionWrapper(out)
           /\ s3DefaultObjParams' =
                  IF out = "ok" THEN [isSet |-> TRUE, bag |-> s3Params]
                  ELSE s3DefaultObjParams
    /\ UNCHANGED <<store, cloudStorageLocation, remoteWorkingDir, localWorkingDir,
                   pending>>

(***************************************************************************)
(* The batch commands.  A batch is a loop over the matched files; a file   *)
(* that fails enters a nested command loop from inside the wrapper of its  *)
(* method, and the batch goes on when that loop returns.  pending holds    *)
(* the batches under way, innermost first: the files still to process and  *)
(* the depth of the activation the batch runs in.                          *)
(***************************************************************************)

RECURSIVE Match(_, _)
\* fnmatch: * matches any string, ? any one character, anything else itself
Match(name, pat) ==
    IF pat = <<>> THEN name = <<>>
    ELSE IF pat[1] = "*"
         THEN Match(name, Tail(pat)) \/ (name # <<>> /\ Match(Tail(name), pat))
         ELSE /\ name # <<>>
              /\ pat[1] = "?" \/ pat[1] = name[1]
              /\ Match(Tail(name), Tail(pat))

RECURSIVE fnmatch_filter(_, _)
\* fnmatch.filter(names, pat): the names that match, in the order of names
fnmatch_filter(names, pat) ==
    IF names = <<>> THEN <<>>
    ELSE (IF Match(names[1], pat) THEN <<names[1]>> ELSE <<>>)
         \o fnmatch_filter(Tail(names), pat)

RECURSIVE Expand_oncePerFile(_, _)
\* the expansion with a file matched by an earlier pattern left out
Expand_oncePerFile(names, args) ==
    IF args = <<>> THEN <<>>
    ELSE LET rest == Expand_oncePerFile(names, Tail(args))
         IN  fnmatch_filter(names, args[1])
             \o SelectSeq(rest, LAMBDA f : ~Match(f, args[1]))

RECURSIVE Expand(_, _)
\* for fpattern in args : for f in fnmatch.filter(remoteFileList, fpattern)
Expand(names, args) ==
    IF args = <<>> THEN <<>>
    ELSE fnmatch_filter(names, args[1]) \o Expand(names, Tail(args))

\* the patterns a batch command may be given
Patterns == {<<"*">>, <<"a", "*">>, <<"?">>, <<".">>}

PatternLists == UNION {[1..n -> Patterns] : n \in 0..MaxPatterns}

\* what glob.iglob yields for the patterns of an mput: names of the local
\* working directory, each a readable file of some size or not
LocalMatches ==
    UNION {[1..n -> [name : {<<"a">>, <<".">>}, exists : BOOLEAN, size : {MaxSize}]]
           : n \in 0..MaxPatterns}

Frame(op, todo, crash) ==
    [op |-> op, todo |-> todo, depth |-> depth, crash |-> crash]

\* mdelete and mget begin with ls; when ls raises, its wrapper logs, runs a
\* nested command loop and returns None, and the first pattern then fails on
\* a list that is None
batchOfListing(op, args) ==
    /\ ready /\ connected /\ Len(pending) < MaxBatches
    /\ LET l == lsOp(store, remoteWorkingDir)
           todo == IF l.out = "ok" THEN Expand(l.ret, args) ELSE <<>>
       IN  /\ res' = Result(op, <<>>, args, l.out, todo)
           /\ pending' = <<Frame(op, todo, l.out # "ok" /\ args # <<>>)>> \o pending
           /\ ExceptionWrapper(l.out)
    /\ UNCHANGED <<store, cloudStorageLocation, remoteWorkingDir, localWorkingDir,
                   s3DefaultObjParams>>

mdelete(args) == batchOfListing("mdelete", args)

mget(args) == batchOfListing("mget", args)

mput(files) ==
    /\ ready /\ connected /\ Len(pending) < MaxBatches
    /\ res' = Result("mput", <<>>, files, "ok", files)
    /\ pending' = <<Frame("mput", files, FALSE)>> \o pending
    /\ UNCHANGED <<store, cloudStorageLocation, remoteWorkingDir, localWorkingDir,
                   s3DefaultObjParams, interactive, depth>>

\* the next file of the batch: self.delete(f), self.get(f, s3ObjArgs) or
\* self.put(f, s3ObjArgs), each under its own wrapper
BatchStep ==
    /\ res = Idle /\ busy /\ ~pending[1].crash /\ pending[1].todo # <<>>
    /\ LET fr == pending[1]
           f == Head(fr.todo)
           d == IF IndexError(f) THEN [store |-> store, out |-> "Exit"]
                ELSE deleteOp(store, remoteWorkingDir, f)
           g == IF IndexError(f) \/ AttributeError(NoBag)
                THEN [download |-> <<>>, out |-> "Exit"]
                ELSE getOp(store, cloudStorageLocation, remoteWorkingDir,
                           localWorkingDir, f,
                           filterArgs(argsOrDefault(NoBag), ALLOWED_DOWNLOAD_ARGS))
           u == IF AttributeError(NoBag) THEN [store |-> store, out |-> "Exit"]
                ELSE putOp(store, remoteWorkingDir, f.name, f.exists, f.size)
           r == CASE fr.op = "mdelete" ->
                       [op |-> "delete", arg |-> f, aux |-> <<>>, store |-> d.store,
                        out |-> d.out, ret |-> <<>>]
                  [] fr.op = "mget" ->
                       [op |-> "get", arg |-> f, aux |-> <<FALSE, NoBag>>, store |-> store,
                        out |-> g.out, ret |-> g.download]
                  [] fr.op = "mput" ->
                       [op |-> "put", arg |-> f.name, aux |-> <<f.exists, f.size, NoBag>>,
                        store |-> u.store, out |-> u.out,
                        ret |-> IF u.out = "ok"
                                THEN <<[extra_args |-> filterArgs(argsOrDefault(NoBag),
                                                                  ALLOWED_UPLOAD_ARGS)]>>
                                ELSE <<>>]
       IN  /\ InBounds(r.store)
           /\ store' = r.store
           /\ res' = Result(r.op, r.arg, r.aux, r.out, r.ret)
           /\ pending' = <<[fr EXCEPT !.todo = Tail(fr.todo)]>> \o Tail(pending)
           /\ ExceptionWrapper(r.out)
    /\ UNCHANGED <<cloudStorageLocation, remoteWorkingDir, localWorkingDir,
                   s3DefaultObjParams>>

\* the loop of the batch is over: the batch returns, or fails on the list
\* that ls did not return
BatchReturn ==
    /\ res = Idle /\ busy /\ (pending[1].crash \/ pending[1].todo = <<>>)
    /\ res' = Result("return", <<>>, <<pending[1].op>>,
                     IF pending[1].crash THEN "Exit" ELSE "ok", <<>>)
    /\ pending' = Tail(pending)
    /\ UNCHANGED <<store, cloudStorageLocation, remoteWorkingDir, localWorkingDir,
                   s3DefaultObjParams, interactive, depth>>

\* lcd, under the wrapper of the base class: an OSError ends the process
lcd(dirName) ==
    /\ ready
    /\ IF dirName \in LocalDirs
       THEN /\ localWorkingDir' = dirName
            /\ res' = Result("lcd", <<>>, <<dirName>>, "ok", <<>>)
       ELSE /\ UNCHANGED localWorkingDir
            /\ res' = Result("lcd", <<>>, <<dirName>>, "Exit", <<>>)
    /\ UNCHANGED <<store, cloudStorageLocation, remoteWorkingDir,
                   s3DefaultObjParams, pending, interactive, depth>>

\* the methods a program may call on a location as it stands
IsDirCall(loc) ==
    /\ ready /\ connected /\ depth = 0
    /\ res' = Result("IsDir", loc, <<>>, IF IsDir(store, loc) THEN "True" ELSE "False", <<>>)
    /\ UNCHANGED <<store, cloudStorageLocation, remoteWorkingDir, localWorkingDir,
                   s3DefaultObjParams, pending, interactive, depth>>

IsFileCall(loc) ==
    /\ ready /\ connected /\ depth = 0
    /\ res' = Result("IsFile", loc, <<>>, IF IsFile(store, loc) THEN "True" ELSE "False", <<>>)
    /\ UNCHANGED <<store, cloudStorageLocation, remoteWorkingDir, localWorkingDir,
                   s3DefaultObjParams, pending, interactive, depth>>

DirEmptyCall(loc) ==
    /\ ready /\ connected /\ depth = 0
    /\ LET out == DirEmpty(store, loc)
       IN  /\ res' = Result("DirEmpty", loc, <<>>, out, <<>>)
           /\ ExceptionWrapper(out)
    /\ UNCHANGED <<store, cloudStorageLocation, remoteWorkingDir, localWorkingDir,
                   s3DefaultObjParams, pending>>

AbsolutePathCall(f) ==
    /\ ready /\ connected /\ depth = 0
    /\ res' = IF IndexError(f)
              THEN Result("AbsolutePath", f, <<>>, "Exit", <<>>)
              ELSE Result("AbsolutePath", f, <<>>, "ok", AbsolutePath(f, remoteWorkingDir))
    /\ UNCHANGED <<store, cloudStorageLocation, remoteWorkingDir, localWorkingDir,
                   s3DefaultObjParams, pending, interactive, depth>>

\* what CommandLine does with a line of tokens: call the method of the verb,
\* or raise
NoArgs == {"bye", "quit", "close", "ls", "pwd"}

OneArg == {"open", "cd", "delete", "get", "lcd", "mkdir", "put", "rmdir"}

MultipleArgs == {"mget", "mput", "mdelete"}

notNeedValidCloudLocation == {"open", "bye", "quit", "close", "lcd"}

\* the dispatch without the test of the connection
Dispatch_noLocationCheck(line, cl) ==
    IF line[1] \in NoArgs THEN "call"
    ELSE IF line[1] \in OneArg
    THEN IF Len(line) = 2 THEN "call" ELSE "FTPInvalidCloudLocation"
    ELSE IF line[1] \in MultipleArgs THEN "call"
    ELSE "FTPInvalidCommand"

Dispatch(line, cl) ==
    IF cl = None /\ line[1] \notin notNeedValidCloudLocation
    THEN "FTPInvalidCloudLocation"
    ELSE IF line[1] \in NoArgs THEN "call"
    ELSE IF line[1] \in OneArg
    THEN IF Len(line) = 2 THEN "call" ELSE "FTPInvalidCloudLocation"
    ELSE IF line[1] \in MultipleArgs THEN "call"
    ELSE "FTPInvalidCommand"

\* input lines: an unknown verb, cd with no, one and two arguments, ls
Lines == {<<"frob">>, <<"cd">>, <<"cd", "x">>, <<"cd", "x", "y">>, <<"ls">>}

\* CommandLine reads a line it raises on: the wrapper of the base class logs
\* the exception and this activation of CommandLine returns
ReadLine(line) ==
    /\ ready /\ depth >= 1
    /\ Dispatch(line, cloudStorageLocation) # "call"
    /\ res' = Result("CommandLine", <<>>, line, Dispatch(line, cloudStorageLocation), <<>>)
    /\ depth' = depth - 1
    /\ UNCHANGED <<store, cloudStorageLocation, remoteWorkingDir, localWorkingDir,
                   s3DefaultObjParams, pending, interactive>>

\* the main script ends when its activation of CommandLine returns
ended == interactive /\ depth = 0

\* the command returns, and the next one may be issued
Return ==
    /\ res # Idle /\ res.out # "Exit" /\ ~ended
    /\ res' = Idle
    /\ UNCHANGED <<store, cloudStorageLocation, remoteWorkingDir, localWorkingDir,
                   s3DefaultObjParams, pending, interactive, depth>>

\* the steps of a line the command loop dispatches
Command ==
    \/ \E loc \in Locations : open(loc)
    \/ close
    \/ \E f \in Strs(MaxArgLen) : cd(f)
    \/ \E f \in Strs(MaxArgLen) : delete(f)
    \/ \E f \in Strs(MaxArgLen) : mkdir(f)
    \/ \E f \in Strs(MaxArgLen) : rmdir(f)
    \/ ls
    \/ \E f \in Strs(MaxArgLen), existed \in BOOLEAN : get(f, existed, NoBag)
    \/ \E f \in Strs(MaxArgLen), n \in 0..MaxSize : put(f, TRUE, n, NoBag)
    \/ \E f \in Strs(MaxArgLen) : put(f, FALSE, 0, NoBag)
    \/ \E d \in LocalNames : lcd(d)
    \/ \E line \in Lines : ReadLine(line)
    \/ Return

Next ==
    \/ Command
    \/ \E loc \in Strs(MaxArgLen) : IsDirCall(loc)
    \/ \E loc \in Strs(MaxArgLen) : IsFileCall(loc)
    \/ \E loc \in Strs(MaxArgLen) : DirEmptyCall(loc)
    \/ \E f \in Strs(MaxArgLen) : AbsolutePathCall(f)

Spec == Init /\ [][Next]_vars

NextCL == Command

SpecCL == InitCL /\ [][NextCL]_vars

\* a session of batch commands over what single puts and the initial bucket
\* left there
NextBatch ==
    \/ \E loc \in {<<"b">>, <<"b", "/", "a">>} : open(loc)
    \/ \E f \in {<<"a">>, <<"/">>} : cd(f)
    \/ \E f \in {<<"a">>, <<"a", "a">>} : put(f, TRUE, MaxSize, NoBag)
    \/ \E existed \in BOOLEAN : get(<<"a">>, existed, NoBag)
    \/ \E f \in {<<"a">>} : delete(f)
    \/ \E f \in {<<"a">>} : mkdir(f)
    \/ \E f \in {<<"a">>} : rmdir(f)
    \/ ls
    \/ \E d \in LocalNames : lcd(d)
    \/ \E args \in PatternLists : mdelete(args)
    \/ \E args \in PatternLists : mget(args)
    \/ \E files \in LocalMatches : mput(files)
    \/ BatchStep
    \/ BatchReturn
    \/ \E line \in Lines : ReadLine(line)
    \/ Return

SpecBatch == Init /\ [][NextBatch]_vars

\* a session that builds a tree of directories and files in a bucket that
\* was empty when the client was constructed
InitTree == Init /\ store = <<>>

NextTree ==
    \/ \E loc \in Buckets : open(loc)
    \/ \E f \in Strs(MaxArgLen) : cd(f)
    \/ \E f \in Strs(MaxArgLen) \cup {<<"a", "/", "a">>} : mkdir(f)
    \/ \E f \in Strs(MaxArgLen) : rmdir(f)
    \/ \E f \in Strs(MaxArgLen) : delete(f)
    \/ \E f \in Args : put(f, TRUE, MaxSize, NoBag)
    \/ \E args \in PatternLists : mdelete(args)
    \/ BatchStep
    \/ BatchReturn
    \/ \E line \in Lines : ReadLine(line)
    \/ Return

SpecTree == InitTree /\ [][NextTree]_vars

\* a program that manages the default parameters and transfers one file
\* with and without a bag of its own
Passed == {NoBag} \cup {[given |-> TRUE, bag |-> b] : b \in Bags}

NextParams ==
    \/ \E loc \in Buckets : open(loc)
    \/ \E b \in Bags : SetS3DefaultObjParams(b)
    \/ \E b \in Bags : LoadS3DefaultObjParams(TRUE, b)
    \/ LoadS3DefaultObjParams(FALSE, {})
    \/ \E a \in Passed : put(<<"a">>, TRUE, MaxSize, a)
    \/ \E a \in Passed, existed \in BOOLEAN : get(<<"a">>, existed, a)
    \/ \E line \in Lines : ReadLine(line)
    \/ Return

SpecParams == Init /\ [][NextParams]_vars

(***************************************************************************)
(* Notions the properties are stated in, defined on the keys directly.     *)
(***************************************************************************)

\* a canonical path: no leading or trailing separator, no empty and no "."
\* segment; the empty string is the root
Canonical(p) ==
    p = <<>> \/ \A i \in 1..Len(splitSlash(p)) : splitSlash(p)[i] \notin {<<>>, <<".">>}

KeysWithPrefix(s, p) == {k \in DOMAIN s : StartsWith(k, p)}

\* the smallest key of a non-empty set
MinKey(K) == CHOOSE k \in K : \A j \in K : j = k \/ StrLess(k, j)

\* t is the bucket s without the object at key k, nothing else changed
Without(s, k, t) ==
    /\ DOMAIN t = DOMAIN s \ {k}
    /\ \A j \in DOMAIN t : t[j] = s[j]

\* the directory p holds at least one child object
HasChild(s, p) ==
    IF p = <<>> THEN DOMAIN s # {}
    ELSE \E k \in DOMAIN s : StartsWith(k, p \o <<"/">>) /\ k # p \o <<"/">>

\* the names of the immediate children of directory cwd
ChildNames(s, cwd) ==
    LET pre == IF cwd = <<>> THEN <<>> ELSE cwd \o <<"/">>
    IN  {splitSlash(SubSeq(k, Len(pre) + 1, Len(k)))[1] :
            k \in {k \in DOMAIN s : StartsWith(k, pre) /\ k # pre}} \ {<<>>}

\* cwd is a directory for listing: the root, or a prefix of some key
ListingDir(s, cwd) ==
    cwd = <<>> \/ \E k \in DOMAIN s : StartsWith(k, cwd \o <<"/">>)

\* the normalized target of the command res describes
Target == AbsolutePath(res.arg, res.rwd0)

(***************************************************************************)
(* C1  A delete of a non-empty name has exactly three outcomes, decided    *)
(* on the normalized target: when IsFile holds the sole object under the   *)
(* target is deleted and nothing else changes; otherwise when IsDir holds  *)
(* it raises S3FTPIsADirectoryError; otherwise S3FTPNoSuchObjectError;     *)
(* both errors leave the bucket unchanged.                                 *)
(***************************************************************************)
C1_DeleteOutcomes ==
    (res.op = "delete" /\ res.arg # <<>>) =>
        IF IsFile(res.store0, Target)
        THEN /\ res.out = "ok"
             /\ \E k \in DOMAIN res.store0 :
                    /\ KeysWithPrefix(res.store0, Target) = {k}
                    /\ res.store0[k] > 0
                    /\ Without(res.store0, k, store)
        ELSE IF IsDir(res.store0, Target)
        THEN res.out = "S3FTPIsADirectoryError" /\ store = res.store0
        ELSE res.out = "S3FTPNoSuchObjectError" /\ store = res.store0

\* delete("a") at root has met the lone marker object a/ and left it in place
C1_Witness ==
    /\ res.op = "delete" /\ res.arg = <<"a">> /\ res.rwd0 = <<>>
    /\ res.out = "S3FTPIsADirectoryError"
    /\ DOMAIN res.store0 = {<<"a", "/">>} /\ res.store0[<<"a", "/">>] = 0
    /\ store = res.store0

(***************************************************************************)
(* C2  IsFile(p), for a canonical p, is true if and only if an object with *)
(* key exactly p exists and its size is greater than zero; keys that       *)
(* merely begin with p do not change the answer.                           *)
(***************************************************************************)
C2_IsFileExactKey ==
    (res.op = "IsFile" /\ Canonical(res.arg)) =>
        (res.out = "True" <=> (res.arg \in DOMAIN store /\ store[res.arg] > 0))

(***************************************************************************)
(* C3  IsDir(p) is true for the root; for any other canonical p it is      *)
(* false when no key has p as a prefix, and otherwise true exactly when    *)
(* the smallest key that has p as a prefix equals p + "/".                 *)
(***************************************************************************)
C3_IsDirFirstKey ==
    (res.op = "IsDir" /\ Canonical(res.arg)) =>
        LET K == KeysWithPrefix(store, res.arg)
        IN  res.out = "True" <=>
                (res.arg = <<>> \/ (K # {} /\ MinKey(K) = res.arg \o <<"/">>))

\* IsDir("a") answered False although the marker a/ exists: the smaller key
\* a. with the same prefix came first
C3_Witness ==
    /\ res.op = "IsDir" /\ res.arg = <<"a">> /\ res.out = "False"
    /\ DOMAIN store = {<<"a", ".">>, <<"a", "/">>}

(***************************************************************************)
(* C4  mkdir of a non-empty name creates the zero-size marker              *)
(* AbsolutePath(name) + "/" exactly when the target is neither IsDir nor   *)
(* IsFile, adding that key and touching no other; otherwise it raises      *)
(* S3FTPObjectAlreadyExistsError and leaves the bucket unchanged.          *)
(***************************************************************************)
C4_MkdirOutcomes ==
    (res.op = "mkdir" /\ res.arg # <<>>) =>
        LET m == Target \o <<"/">>
        IN  IF ~IsDir(res.store0, Target) /\ ~IsFile(res.store0, Target)
            THEN /\ res.out = "ok"
                 /\ DOMAIN store = DOMAIN res.store0 \cup {m}
                 /\ store[m] = 0
                 /\ \A k \in DOMAIN res.store0 \ {m} : store[k] = res.store0[k]
            ELSE res.out = "S3FTPObjectAlreadyExistsError" /\ store = res.store0

\* mkdir("a") at root was refused over the existing file a, which is still
\* the only object
C4_Witness ==
    /\ res.op = "mkdir" /\ res.arg = <<"a">> /\ res.rwd0 = <<>>
    /\ res.out = "S3FTPObjectAlreadyExistsError"
    /\ DOMAIN store = {<<"a">>} /\ store[<<"a">>] > 0

(***************************************************************************)
(* C5  After a successful mkdir(name) with the working directory at root,  *)
(* IsDir(name) is true, IsFile(name) is false and DirEmpty(name) is true,  *)
(* whatever other objects the bucket holds.                                *)
(***************************************************************************)
C5_MkdirThenDirectory ==
    (res.op = "mkdir" /\ res.out = "ok" /\ res.rwd0 = <<>>) =>
        /\ IsDir(store, Target)
        /\ ~IsFile(store, Target)
        /\ DirEmpty(store, Target) = "True"

(***************************************************************************)
(* C6  rmdir of a non-empty name raises S3FTPNoSuchDirError when the       *)
(* normalized target is not a directory and S3FTPDirNotEmptyError when it  *)
(* is a directory holding at least one child object; in both cases nothing *)
(* is deleted.                                                             *)
(***************************************************************************)
C6_RmdirRefusals ==
    (res.op = "rmdir" /\ res.arg # <<>>) =>
        /\ ~IsDir(res.store0, Target) =>
              (res.out = "S3FTPNoSuchDirError" /\ store = res.store0)
        /\ (IsDir(res.store0, Target) /\ HasChild(res.store0, Target)) =>
              (res.out = "S3FTPDirNotEmptyError" /\ store = res.store0)

(***************************************************************************)
(* C7  Whenever rmdir succeeds, the only change to the bucket is the       *)
(* removal of the marker AbsolutePath(name) + "/", for every target, the   *)
(* root included.                                                          *)
(***************************************************************************)
C7_RmdirRemovesOnlyMarker ==
    (res.op = "rmdir" /\ res.out = "ok") =>
        LET m == Target \o <<"/">>
        IN  m \in DOMAIN res.store0 /\ Without(res.store0, m, store)

(***************************************************************************)
(* C8  cd to a non-empty name sets the working directory to                *)
(* AbsolutePath(name) when IsDir holds there; otherwise it raises          *)
(* S3FTPNoSuchDirError and the working directory keeps its value.  The     *)
(* bucket is never modified.                                               *)
(***************************************************************************)
C8_CdOutcomes ==
    (res.op = "cd" /\ res.arg # <<>>) =>
        /\ store = res.store0
        /\ IF IsDir(res.store0, Target)
           THEN res.out = "ok" /\ remoteWorkingDir = Target
           ELSE res.out = "S3FTPNoSuchDirError" /\ remoteWorkingDir = res.rwd0

\* cd("aa") from directory a was refused: a/aa is a file; the working
\* directory is still a
C8_Witness ==
    /\ res.op = "cd" /\ res.arg = <<"a", "a">> /\ res.rwd0 = <<"a">>
    /\ res.out = "S3FTPNoSuchDirError"
    /\ remoteWorkingDir = <<"a">>
    /\ DOMAIN store = {<<"a", "/">>, <<"a", "/", "a", "a">>}

(***************************************************************************)
(* C9  ls returns one entry per immediate child of the working directory   *)
(* (a canonical path that is the root or has keys below it): the first     *)
(* segment below cwd of every key under cwd + "/", and nothing for the     *)
(* keys that are not under cwd + "/".                                      *)
(***************************************************************************)
C9_LsImmediateChildren ==
    (res.op = "ls" /\ res.out = "ok" /\ Canonical(res.rwd0) /\ ListingDir(store, res.rwd0)) =>
        {res.ret[i] : i \in 1..Len(res.ret)} = ChildNames(store, res.rwd0)

(***************************************************************************)
(* C10  The list ls returns, for every working directory (a canonical path *)
(* that is the root or has keys below it), is in strictly increasing order *)
(* (sorted, no duplicates), holds no empty string and no entry ending in   *)
(* "/".                                                                    *)
(***************************************************************************)
C10_LsSortedDistinct ==
    (res.op = "ls" /\ res.out = "ok" /\ Canonical(res.rwd0) /\ ListingDir(store, res.rwd0)) =>
        /\ \A i \in 1..(Len(res.ret) - 1) : StrLess(res.ret[i], res.ret[i + 1])
        /\ \A i \in 1..Len(res.ret) :
               res.ret[i] # <<>> /\ res.ret[i][Len(res.ret[i])] # "/"

OneLevel(p) == p \notin {<<>>, <<".", ".">>} /\ Len(splitSlash(p)) = 1

C14_EmptyArgument ==
    (res.arg = <<>> /\ res.op \in {"AbsolutePath", "cd", "delete", "get", "mkdir", "rmdir"}) =>
        res.out # "Exit"

(***************************************************************************)
(* C15  When the object whose key equals the path exactly has size zero,   *)
(* IsDir(path) is true and IsFile(path) is false.                          *)
(***************************************************************************)
C15_ZeroSizeIsDirectory ==
    (res.op \in {"IsDir", "IsFile"} /\ res.arg \in DOMAIN store /\ store[res.arg] = 0) =>
        /\ res.op = "IsDir" => res.out = "True"
        /\ res.op = "IsFile" => res.out = "False"

(***************************************************************************)
(* C15, amended  When the object whose key equals the path exactly has     *)
(* size zero, IsFile(path) is false, and IsDir(path) is true exactly when  *)
(* the path ends in the separator.                                         *)
(***************************************************************************)
C15_ZeroSizeNotAFile ==
    (res.op \in {"IsDir", "IsFile"} /\ res.arg \in DOMAIN store /\ store[res.arg] = 0) =>
        /\ res.op = "IsDir" => (res.out = "True" <=> res.arg[Len(res.arg)] = "/")
        /\ res.op = "IsFile" => res.out = "False"

\* IsDir("a") answered False where the object a has size zero
C15_Witness ==
    /\ res.op = "IsDir" /\ res.arg = <<"a">> /\ res.out = "False"
    /\ <<"a">> \in DOMAIN store /\ store[<<"a">>] = 0

(***************************************************************************)
(* C16  DirEmpty(path) raises S3FTPNoSuchDirError when IsDir(path) is      *)
(* false; when IsDir(path) is true it returns True if and only if exactly  *)
(* one key starts with path and the object at that key has size zero.      *)
(***************************************************************************)
C16_DirEmpty ==
    res.op = "DirEmpty" =>
        LET K == KeysWithPrefix(store, res.arg)
        IN  IF IsDir(store, res.arg)
            THEN /\ res.out \in {"True", "False"}
                 /\ res.out = "True" <=>
                        (Cardinality(K) = 1 /\ \A k \in K : store[k] = 0)
            ELSE res.out = "NoSuchDir"

\* DirEmpty("a") answered False: the one key under a is a/ and its object
\* is not empty
C16_Witness ==
    /\ res.op = "DirEmpty" /\ res.arg = <<"a">> /\ res.out = "False"
    /\ DOMAIN store = {<<"a", "/">>} /\ store[<<"a", "/">>] > 0

(***************************************************************************)
(* C17  get of a non-empty name: when IsFile holds at the normalized       *)
(* target, the object at key AbsolutePath(name) is downloaded to the local *)
(* file localWorkingDir + "/" + the final segment of the name, whether or  *)
(* not such a file was there; when the target is a directory it raises     *)
(* S3FTPIsADirectoryError, otherwise S3FTPNoSuchFileError, and in both     *)
(* cases no download is issued.  The bucket is never modified.             *)
(***************************************************************************)
C17_GetOutcomes ==
    (res.op = "get" /\ res.arg # <<>>) =>
        /\ store = res.store0
        /\ IF IsFile(res.store0, Target)
           THEN /\ res.out = "ok"
                /\ Len(res.ret) = 1
                /\ res.ret[1].Bucket = res.cl0 /\ res.ret[1].Key = Target
                /\ res.ret[1].dir = localWorkingDir
                /\ res.ret[1].file = basename(res.arg)
           ELSE IF IsDir(res.store0, Target)
           THEN res.out = "S3FTPIsADirectoryError" /\ res.ret = <<>>
           ELSE res.out = "S3FTPNoSuchFileError" /\ res.ret = <<>>

\* the local file localWorkingDir/name can be one: it exists and its name does
\* not end in a directory
LocalFileGiven ==
    res.aux[1] /\ basename(res.arg) \notin NotAFileName

\* the bucket s with the object at key k written anew with size n, every
\* other key as it was
Written(s, k, n, t) ==
    /\ DOMAIN t = DOMAIN s \cup {k}
    /\ t[k] = n
    /\ \A j \in DOMAIN s \ {k} : t[j] = s[j]

(***************************************************************************)
(* C18  put makes no existence check: given the local file                 *)
(* localWorkingDir/name it writes it to the one key                        *)
(* AbsolutePath(final segment of name), directly under the working         *)
(* directory, replacing any object at that key and leaving every other key *)
(* as it was.                                                              *)
(***************************************************************************)
C18_PutWritesOneKey ==
    (res.op = "put" /\ res.arg # <<>> /\ LocalFileGiven) =>
        /\ res.out = "ok"
        /\ Written(res.store0, AbsolutePath(basename(res.arg), res.rwd0), res.aux[2], store)

\* the command res describes was a failing input line: one CommandLine
\* raised on (unknown verb, wrong number of arguments, no connection), one
\* whose method raised an exception of the storage layer, or an lcd to a
\* directory that does not exist
FailingLine ==
    \/ res.op = "CommandLine"
    \/ res.out \in Raised
    \/ (res.op = "lcd" /\ res.aux[1] \notin LocalDirs)

(***************************************************************************)
(* C19  In the command line client a failing input line never ends the     *)
(* session: after it the process is alive and an activation of CommandLine *)
(* is there to read the next line, whatever the nesting depth was.         *)
(***************************************************************************)
C19_LoopContinues ==
    (interactive /\ FailingLine) => (res.out # "Exit" /\ depth >= 1)

(***************************************************************************)
(* C20  When a program calls cd, delete, get, mkdir, rmdir, ls or open and *)
(* the call fails, control is back with the program, which holds the       *)
(* error: no activation of CommandLine has been entered.                   *)
(***************************************************************************)
C20_ErrorReturned ==
    (/\ ~interactive /\ res.depth0 = 0
     /\ res.op \in {"cd", "delete", "get", "mkdir", "rmdir", "ls", "open"}
     /\ res.out \in Raised) => depth = 0

\* the position of the first separator of a location, or one past its end
FirstSlash(loc) ==
    LET at == {i \in 1..Len(loc) : loc[i] = "/"}
    IN  IF at = {} THEN Len(loc) + 1 ELSE CHOOSE i \in at : \A j \in at : i <= j

\* the bucket name of a location: what precedes the first separator
BucketPart(loc) == SubSeq(loc, 1, FirstSlash(loc) - 1)

\* the folder part of a location: what follows the first separator, less the
\* separators at its end; empty when the location is a bucket name alone
FolderPart(loc) == rstripSlash(SubSeq(loc, FirstSlash(loc) + 1, Len(loc)))

(***************************************************************************)
(* C28  A successful open sets cloudStorageLocation to the bucket name and *)
(* remoteWorkingDir to the folder part of the location (the empty string   *)
(* when there is none); close clears both; in every reachable state the    *)
(* one is unset exactly when the other is; open and close leave            *)
(* localWorkingDir as it was.                                              *)
(***************************************************************************)
C28_SessionLifecycle ==
    /\ cloudStorageLocation = None <=> remoteWorkingDir = None
    /\ (res.op = "open" /\ res.out = "ok") =>
          /\ cloudStorageLocation = BucketPart(res.arg)
          /\ remoteWorkingDir = FolderPart(res.arg)
          /\ localWorkingDir = res.lwd0
    /\ res.op = "close" =>
          /\ cloudStorageLocation = None /\ remoteWorkingDir = None
          /\ localWorkingDir = res.lwd0

\* open("b/a") on a closed session: connected to bucket b, in folder a
C28_Witness ==
    /\ res.op = "open" /\ res.arg = <<"b", "/", "a">> /\ res.out = "ok"
    /\ res.cl0 = None /\ res.rwd0 = None
    /\ cloudStorageLocation = <<"b">> /\ remoteWorkingDir = <<"a">>

(***************************************************************************)
(* C29  Whenever the session is connected, remoteWorkingDir is a canonical *)
(* path: no leading and no trailing separator, no empty segment and no "." *)
(* segment, after any sequence of open and cd.                             *)
(***************************************************************************)
C29_WorkingDirCanonical ==
    connected => Canonical(remoteWorkingDir)

\* the segments of a path
Segments(p) == {splitSlash(p)[i] : i \in 1..Len(splitSlash(p))}

(***************************************************************************)
(* C30  For a canonical working directory and a non-empty input, absolute  *)
(* or relative, the result of AbsolutePath has no ".." segment.            *)
(***************************************************************************)
C30_NoParentSegment ==
    (res.op = "AbsolutePath" /\ res.out = "ok" /\ Canonical(res.rwd0)) =>
        <<".", ".">> \notin Segments(res.ret)

\* the bag a transfer works from: its own, or the defaults as they were
BagUsed(a) == IF a.given THEN a.bag ELSE res.params0.bag

(***************************************************************************)
(* C24  Transfers filter their parameters permissively.  A put of a local  *)
(* file that is there hands upload_file exactly the entries of its bag     *)
(* whose key is an upload parameter, a get of a file that is there hands   *)
(* download_file exactly those whose key is a download parameter; every    *)
(* other entry is dropped and the transfer takes place all the same.  With *)
(* no bag passed the session defaults are filtered in the same way.        *)
(***************************************************************************)
C24_PermissiveFiltering ==
    /\ (res.op = "put" /\ res.arg # <<>> /\ LocalFileGiven) =>
          /\ res.out = "ok"
          /\ res.ret = <<[extra_args |->
                 {kv \in BagUsed(res.aux[3]) : kv[1] \in ALLOWED_UPLOAD_ARGS}]>>
    /\ (res.op = "get" /\ res.arg # <<>> /\ Target \in DOMAIN res.store0
           /\ IsFile(res.store0, Target)) =>
          /\ res.out = "ok"
          /\ res.ret[1].Key = Target
          /\ res.ret[1].extra_args =
                 {kv \in BagUsed(res.aux[2]) : kv[1] \in ALLOWED_DOWNLOAD_ARGS}

\* the dictionary d with the entries of bag written over it
Overwritten(d, bag) ==
    {kv \in d : ~ \E n \in bag : n[1] = kv[1]} \cup bag

\* every key of the bag is an upload or a download parameter
AllValid(bag) ==
    \A kv \in bag : kv[1] \in ALLOWED_UPLOAD_ARGS \cup ALLOWED_DOWNLOAD_ARGS

(***************************************************************************)
(* C25  SetS3DefaultObjParams is all or nothing: a bag with an invalid key *)
(* signals InvalidObjectParameter and leaves the defaults as they were; a  *)
(* bag of valid keys overwrites the defaults of these keys and leaves the  *)
(* others as they were.                                                    *)
(***************************************************************************)
C25_SetAllOrNothing ==
    res.op = "SetS3DefaultObjParams" =>
        IF AllValid(res.aux[1])
        THEN /\ res.out = "ok"
             /\ s3DefaultObjParams.bag = Overwritten(res.params0.bag, res.aux[1])
        ELSE /\ res.out = "S3FTPInvalidObjectParameter"
             /\ s3DefaultObjParams = res.params0

(***************************************************************************)
(* C26  LoadS3DefaultObjParams of a file holding valid keys overwrites the *)
(* defaults of these keys and leaves the others as they were; a file with  *)
(* an invalid key signals InvalidObjectParameter and changes nothing.      *)
(***************************************************************************)
C26_LoadPartial ==
    (res.op = "LoadS3DefaultObjParams" /\ res.aux[1]) =>
        IF AllValid(res.aux[2])
        THEN /\ res.out = "ok"
             /\ s3DefaultObjParams.bag = Overwritten(res.params0.bag, res.aux[2])
        ELSE /\ res.out = "S3FTPInvalidObjectParameter"
             /\ s3DefaultObjParams = res.params0

\* res describes a file of the batch under way, just processed
BatchItem ==
    /\ pending # <<>> /\ res.depth0 = pending[1].depth
    /\ res.op \in {"delete", "get", "put"}

(***************************************************************************)
(* C21  A failure on one file of a batch (mdelete, mget, mput) does not    *)
(* abort the batch: while matched files are left to process, the file just *)
(* processed has not ended the process.  Stated for a session whose        *)
(* default parameters were loaded.                                         *)
(***************************************************************************)
C21_BatchGoesOn ==
    (BatchItem /\ res.params0.isSet /\ pending[1].todo # <<>>) => res.out # "Exit"

\* key k names an entry directly in the directory rwd: rwd/name, the name
\* without a separator
InWorkingDir(k, rwd) ==
    LET name == IF rwd = <<>> THEN k
                ELSE IF StartsWith(k, rwd \o <<"/">>)
                     THEN SubSeq(k, Len(rwd) + 2, Len(k))
                     ELSE <<>>
    IN  name # <<>> /\ \A i \in 1..Len(name) : name[i] # "/"

(***************************************************************************)
(* C22  mdelete and mget operate only on the files of the current remote   *)
(* working directory: every object a file of the batch deletes or          *)
(* downloads lies directly in the working directory, none in a             *)
(* subdirectory of it and none outside it.                                 *)
(***************************************************************************)
C22_OnlyWorkingDir ==
    (BatchItem /\ pending[1].op \in {"mdelete", "mget"}) =>
        /\ \A k \in DOMAIN res.store0 \ DOMAIN store : InWorkingDir(k, res.rwd0)
        /\ \A i \in 1..Len(res.ret) : InWorkingDir(res.ret[i].Key, res.rwd0)

RECURSIVE Grouped(_, _, _)
\* the matches of the patterns i.. of args, pattern by pattern, each group
\* in the order of the listing
Grouped(listing, args, i) ==
    IF i > Len(args) THEN <<>>
    ELSE SelectSeq(listing, LAMBDA n : Match(n, args[i])) \o Grouped(listing, args, i + 1)

(***************************************************************************)
(* C23  Over a listing that ls returned, mdelete and mget process the      *)
(* matches grouped by pattern, in the order the patterns are given and     *)
(* within a pattern in listing order; an entry matched by several patterns *)
(* is there once per matching pattern, and a pattern that matches nothing  *)
(* contributes nothing and is no error.                                    *)
(***************************************************************************)
C23_ExpansionOrder ==
    (res.op \in {"mdelete", "mget"} /\ lsOp(res.store0, res.rwd0).out = "ok") =>
        /\ res.out = "ok"
        /\ res.ret = Grouped(lsOp(res.store0, res.rwd0).ret, res.aux, 1)
        /\ pending[1].todo = res.ret

\* listing [a, aa], patterns [?, *]: a for the first, a and aa for the second
C23_Witness ==
    /\ res.op = "mdelete" /\ res.out = "ok"
    /\ res.aux = <<<<"?">>, <<"*">>>>
    /\ res.ret = <<<<"a">>, <<"a">>, <<"a", "a">>>>

(***************************************************************************)
(* C27  The working directories are touched by cd and lcd only: get, put,  *)
(* mget, mput, delete, mdelete, mkdir, rmdir and ls, alone or as a file of *)
(* a batch, succeeding or failing, leave remoteWorkingDir and              *)
(* localWorkingDir as they were.                                           *)
(***************************************************************************)
C27_WorkingDirFrame ==
    res.op \in {"get", "put", "mget", "mput", "delete", "mdelete", "mkdir", "rmdir", "ls"} =>
        /\ remoteWorkingDir = res.rwd0
        /\ localWorkingDir = res.lwd0

\* a file of an mget fails below the root, and the session is where it was
C27_Witness ==
    /\ BatchItem /\ pending[1].op = "mget" /\ res.out \in Raised
    /\ res.rwd0 = <<"a">> /\ remoteWorkingDir = <<"a">>

(***************************************************************************)
(* C31  A successful delete of a non-empty name removes exactly the object *)
(* whose key is the normalized target, and no other: every other key is    *)
(* there afterwards with its object as it was.                             *)
(***************************************************************************)
C31_DeletesExactKey ==
    (res.op = "delete" /\ res.arg # <<>> /\ res.out = "ok") =>
        /\ DOMAIN res.store0 \ DOMAIN store = {Target}
        /\ \A k \in DOMAIN store : k \in DOMAIN res.store0 /\ store[k] = res.store0[k]

(***************************************************************************)
(* C32  In every reachable bucket and for every canonical path, the root   *)
(* (the empty path) included, IsFile and IsDir are never both true.        *)
(***************************************************************************)
C32_FileXorDirectory ==
    \A p \in Strs(MaxArgLen) :
        Canonical(p) => ~(IsFile(store, p) /\ IsDir(store, p))

(***************************************************************************)
(* C33  While the session is connected the remote working directory is an *)
(* existing directory: IsDir holds of it.                                  *)
(***************************************************************************)
C33_WorkingDirExists ==
    connected => IsDir(store, remoteWorkingDir)

\* p is a directory below the root whose marker is there, empty as mkdir
\* writes it, and no key lies below it
Childless(s, p) ==
    /\ p # <<>>
    /\ (p \o <<"/">>) \in DOMAIN s /\ s[p \o <<"/">>] = 0
    /\ \A k \in DOMAIN s : StartsWith(k, p \o <<"/">>) => k = p \o <<"/">>

(***************************************************************************)
(* C34  A directory without children can always be removed: when the       *)
(* marker of the target is there and no key has it as a strict prefix,     *)
(* rmdir succeeds, whatever other keys the bucket holds.                   *)
(***************************************************************************)
C34_ChildlessRemovable ==
    (res.op = "rmdir" /\ res.arg # <<>> /\ Childless(res.store0, Target)) =>
        res.out = "ok"

(***************************************************************************)
(* C35  mkdir and rmdir are a round trip: after a mkdir of a name that     *)
(* succeeded, rmdir of the same name succeeds and leaves the bucket        *)
(* exactly as it was before the mkdir.                                     *)
(***************************************************************************)
C35_MkdirRmdirRoundTrip ==
    (res.op = "mkdir" /\ res.arg # <<>> /\ res.out = "ok") =>
        /\ rmdirOp(store, remoteWorkingDir, res.arg).out = "ok"
        /\ rmdirOp(store, remoteWorkingDir, res.arg).store = res.store0

(***************************************************************************)
(* C36  No name is both a file and a directory: in a bucket built from     *)
(* empty by mkdir, rmdir, put, delete and mdelete there are never an       *)
(* object with key p and the marker p/ together.                           *)
(***************************************************************************)
C36_NoFileAndDirectory ==
    \A p \in DOMAIN store : Canonical(p) => (p \o <<"/">>) \notin DOMAIN store

\* the path of the directory that holds p: p without its last segment
Parent(p) == joinSlash(SubSeq(splitSlash(p), 1, Len(splitSlash(p)) - 1))

(***************************************************************************)
(* C37  The tree of directories stays connected: in a bucket built from    *)
(* empty, the parent of every directory that has a marker is the root or   *)
(* is itself a directory.                                                  *)
(***************************************************************************)
C37_TreeConnected ==
    \A k \in DOMAIN store :
        (Len(k) > 1 /\ k[Len(k)] = "/") =>
            LET p == SubSeq(k, 1, Len(k) - 1)
            IN  Parent(p) = <<>> \/ IsDir(store, Parent(p))

(***************************************************************************)
(* C38  In the command loop, while no bucket is connected, a line whose    *)
(* verb is not open, bye, quit, close or lcd is rejected with              *)
(* FTPInvalidCloudLocation before it is dispatched: the only commands that *)
(* run are open, close and lcd, and a rejected line leaves the bucket and  *)
(* the session as they were.                                               *)
(***************************************************************************)
C38_RejectedBeforeDispatch ==
    (res.op # "none" /\ res.depth0 >= 1 /\ res.cl0 = None) =>
        /\ res.op \in {"open", "close", "lcd", "CommandLine"}
        /\ (res.op = "CommandLine" /\ res.aux[1] \notin {"open", "bye", "quit", "close", "lcd"}) =>
              /\ res.out = "FTPInvalidCloudLocation"
              /\ store = res.store0
              /\ cloudStorageLocation = res.cl0 /\ remoteWorkingDir = res.rwd0
              /\ localWorkingDir = res.lwd0 /\ s3DefaultObjParams = res.params0

\* the line ls, read before any open, is rejected
C38_Witness ==
    /\ res.op = "CommandLine" /\ res.aux = <<"ls">> /\ res.cl0 = None
    /\ res.depth0 = 1 /\ res.out = "FTPInvalidCloudLocation"
    /\ cloudStorageLocation = None

(***************************************************************************)
(* C39  An open that names a bucket that does not exist raises             *)
(* S3FTPNoSuchBucketError and leaves the session as it was: the bucket     *)
(* connected before, if any, stays connected with its working directory.   *)
(***************************************************************************)
C39_FailedOpenKeepsSession ==
    (res.op = "open" /\ splitSlash(res.arg)[1] \notin Buckets) =>
        /\ res.out = "S3FTPNoSuchBucketError"
        /\ cloudStorageLocation = res.cl0 /\ remoteWorkingDir = res.rwd0
        /\ localWorkingDir = res.lwd0 /\ s3DefaultObjParams = res.params0
        /\ store = res.store0

\* a session connected to b and working in a tries to open c
C39_Witness ==
    /\ res.op = "open" /\ res.arg = <<"c">> /\ res.out = "S3FTPNoSuchBucketError"
    /\ res.cl0 = <<"b">> /\ res.rwd0 = <<"a">>
    /\ cloudStorageLocation = <<"b">> /\ remoteWorkingDir = <<"a">>

====
